---- MODULE Spec2Model ----
(***************************************************************************)
(* VortexMedia: the Downloader batch queue (src/components/Downloader.tsx),*)
(* the notification and AI service wrappers (src/services), the Generator  *)
(* panel (src/unnamed/part_001) and the App theme menu (src/App.tsx).      *)
(*                                                                         *)
(* React state is modelled by the value it has after the pending updates   *)
(* have been applied; a click handler reads the rendered (current) state,  *)
(* an async continuation or a timeout callback reads what its closure      *)
(* captured.  Strings that are only displayed (speed, phase, timeLeft,     *)
(* summary, thumbnailUrl, errorMsg) are left out of the records.           *)
(***************************************************************************)
EXTENDS Integers, Sequences, FiniteSets, TLC

\* ------------------------------------------------------------------ bounds
\* ids that crypto.randomUUID() hands out in one run
MaxId == 4
\* startDownload invocations, running or scheduled by handleDownloadAll, in one run
MaxCalls == 1
\* whitespace-separated words of the text pasted in the queue specification
MaxTextLen == 2
\* ids handed out in the queue specification
MaxQueueId == 4
\* distinct URLs offered to addToHistory in the history specification
NHistUrls == 6
\* polls of one generateVideo call that find the operation unfinished
MaxPolls == 2
\* handleGenerate calls in flight at once
MaxGenerations == 1
\* client coordinates of the mouse events over the content element: 0..MaxMouse
MaxMouse == 2
\* ids handed out in the specification with handleDownloadAll
MaxAllId == 5
\* startDownload invocations, running or scheduled, in that specification
MaxAllCalls == 2
\* ids handed out in the specification of the expansions
MaxExpandId == 8
\* ids handed out and startDownload calls in the specification of the ticks
MaxTickId == 2
MaxTickCalls == 2
\* ids handed out and startDownload calls in the specification of the analyses
MaxReadyId == 2
MaxReadyCalls == 2
\* ids handed out in the specification of the type toggle
MaxTypeId == 3
\* handleGenerate calls that have not returned, in the specification of the clicks
MaxClicks == 2
\* openSelectKey() dialogs open at a time
MaxDialogs == 2
\* ids handed out in the specification of the starts
MaxStartId == 2
\* startDownload invocations, running or scheduled, in that specification
MaxStartCalls == 2

\* ------------------------------------------------------- program constants
HistoryCap == 5
Complete == 100
\* Math.random() and the accumulated progress are kept in 1/Scale parts of
\* one: Scale is a power of two, so that every value is a double and the
\* sums and products of the callback are exact in double arithmetic
Scale == 1024

VARIABLES
    queue,            \* BatchItem[]            (Downloader.tsx:29)
    history,          \* HistoryItem[]          (Downloader.tsx:30)
    storage,          \* localStorage['vortex_media_history']
    downloadType,     \* 'video' | 'audio'      (Downloader.tsx:33)
    intervalsRef,     \* item id -> timer handle (Downloader.tsx:36)
    timers,           \* the intervals that are active, with their closure's progress
    nextId,           \* ids handed out so far + 1
    nextCall,         \* startDownload calls past the guard so far + 1
    pendingAnalyses,  \* analyzeLink calls in flight, one per new item
    pendingStarts,    \* startDownload calls awaiting requestNotificationPermission
    pendingTimeouts,  \* handleDownloadAll timeouts not yet fired
    notification,     \* Notification.permission, or "unsupported"
    removed,          \* history variable: the ids removeItem has been called with
    lastOp,           \* history variable: the operation that made the last step
    ticks,            \* history variable: the runs of each timer's callback so far
    analysis,         \* one analyzeLink call: where it is and how its promise settled
    prompt,           \* Generator: string                  (part_001:7)
    isGenerating,     \* Generator: boolean                 (part_001:8)
    videoUri,         \* Generator: string | null           (part_001:9)
    error,            \* Generator: string | null           (part_001:10)
    hasKey,           \* Generator: boolean                 (part_001:11)
    keyCheck,         \* Generator: the checkApiKey of the mount effect, its environment
    selecting,        \* Generator: the handleSelectKey calls awaiting openSelectKey()
    generations,      \* handleGenerate calls in flight, by call number
    currentTheme,     \* App: ThemeConfig                   (App.tsx:66)
    showMenu,         \* App: boolean                       (App.tsx:67)
    mouse             \* App: --mouse-x / --mouse-y of the content element

dlRest == <<queue, history, storage, downloadType, intervalsRef, timers, nextId,
            nextCall, pendingAnalyses, pendingStarts, pendingTimeouts>>

dlVars == <<dlRest, notification>>

genVars == <<prompt, isGenerating, videoUri, error, hasKey, keyCheck, selecting,
            generations>>

appVars == <<currentTheme, showMenu, mouse>>

\* what the Downloader does not touch
others == <<analysis, genVars, appVars>>

vars == <<dlVars, removed, lastOp, ticks, others>>

\* ------------------------------------------------------------------- types
NoResult == [platform |-> "", isValid |-> FALSE, contentType |-> "none", isPlaylist |-> FALSE]

Url(b) == [base |-> b, idx |-> <<>>]

\* a word of the text in which the URL regex finds nothing
Word == [base |-> 0, idx |-> <<>>]

HasIndex(url) == Len(url.idx) > 0

SubUrl(url, i) == [base |-> url.base, idx |-> Append(url.idx, i)]

Item(id, url, status, progress, result, type) ==
    [id |-> id, url |-> url, status |-> status, progress |-> progress,
     result |-> result, type |-> type]

Min(a, b) == IF a < b THEN a ELSE b

\* the elements of a sequence
Range(s) == {s[i] : i \in DOMAIN s}

\* Array.prototype.slice(0, n)
Slice(s, n) == SubSeq(s, 1, Min(n, Len(s)))

\* ------------------------------------------------- services/gemini.analyzeLink
\* What ai.models.generateContent does for one call: it throws, or it answers
\* with no text, with text that JSON.parse rejects, or with the JSON of `data`.
Fallback ==
    [platform |-> "Desconocida", isValid |-> FALSE, contentType |-> "unknown",
     isPlaylist |-> FALSE]

Response(kind, data) == [kind |-> kind, data |-> data]

Data(platform, isValid, contentType, isPlaylist) ==
    [platform |-> platform, isValid |-> isValid, contentType |-> contentType,
     isPlaylist |-> isPlaylist]

Platforms == {"YouTube", "Spotify"}
ContentTypes == {"video", "audio", "image", "unknown"}

AllData ==
    {Data(p, v, c, l) : p \in Platforms, v \in BOOLEAN, c \in ContentTypes, l \in BOOLEAN}

Failures == {Response(k, NoResult) : k \in {"throw", "empty", "badjson"}}

Responses == Failures \cup {Response("json", d) : d \in AllData}

\* the outcome of the promise analyzeLink returns
Resolved(v) == [rejected |-> FALSE, value |-> v]
Rejected == [rejected |-> TRUE, value |-> NoResult]

\* analyzeLink with JSON.parse outside its try block
AnalyzeLinkNoCatch(resp) ==
    CASE resp.kind = "throw" -> Resolved(Fallback)
      [] resp.kind = "empty" -> Resolved(Fallback)
      [] resp.kind = "badjson" -> Rejected
      [] OTHER -> Resolved(resp.data)

AnalyzeLink(resp) ==
    CASE resp.kind = "throw" -> Resolved(Fallback)      \* caught by the try block
      [] resp.kind = "empty" -> Resolved(Fallback)      \* throw new Error("No response text")
      [] resp.kind = "badjson" -> Resolved(Fallback)    \* JSON.parse throws
      [] OTHER -> Resolved(resp.data)

\* --------------------------------------------------------------- history
HistoryItem(url, platform) == [url |-> url, platform |-> platform]

\* JSON.stringify / JSON.parse of a HistoryItem[]: the text keeps the fields
\* in order, field by field
Stringify(h) == [i \in 1..Len(h) |-> <<h[i].url, h[i].platform>>]
Parse(text) == [i \in 1..Len(text) |-> HistoryItem(text[i][1], text[i][2])]

NoStorage == [present |-> FALSE, text |-> <<>>]
Stored(text) == [present |-> TRUE, text |-> text]

UpdatedNoSlice(prev, resultData, link) ==
    <<HistoryItem(link, resultData.platform)>>
        \o SelectSeq(prev, LAMBDA item : item.url # link)

UpdatedNoFilter(prev, resultData, link) ==
    Slice(<<HistoryItem(link, resultData.platform)>> \o prev, HistoryCap)

\* the updater of setHistory in addToHistory
Updated(prev, resultData, link) ==
    LET newItem == HistoryItem(link, resultData.platform)
        filtered == SelectSeq(prev, LAMBDA item : item.url # link)
    IN  Slice(<<newItem>> \o filtered, HistoryCap)

\* addToHistory writing the list it was given, before its own entry
AddToHistoryStoresPrev(h, st, resultData, link) ==
    IF ~resultData.isValid
    THEN <<h, st>>
    ELSE <<Updated(h, resultData, link), Stored(Stringify(h))>>

\* addToHistory(resultData, link): the pair <<history, storage>> it leaves
AddToHistory(h, st, resultData, link) ==
    IF ~resultData.isValid
    THEN <<h, st>>
    ELSE <<Updated(h, resultData, link), Stored(Stringify(Updated(h, resultData, link)))>>

\* ------------------------------------------------------------ the queue
IsUrl(word) == word.base # 0

\* text.match(/(https?:\/\/[^\s]+)/g) || [] : the text is given as its
\* whitespace-separated words, each already cut down to what the regex
\* matches in it (Word when it matches nothing)
ExtractUrls(text) == SelectSeq(text, IsUrl)

AllUrls(rawUrls) == rawUrls

\* Array.from(new Set(rawUrls)): first occurrences, in order
RECURSIVE UniqueUrls(_)
UniqueUrls(rawUrls) ==
    IF rawUrls = <<>> THEN <<>>
    ELSE LET init == UniqueUrls(SubSeq(rawUrls, 1, Len(rawUrls) - 1))
             last == rawUrls[Len(rawUrls)]
         IN  IF last \in Range(init) THEN init ELSE Append(init, last)

RandomUUIDSame(first, i) == first

\* crypto.randomUUID() for the i-th item made by a handler that starts at
\* the first unused id: a value never handed out before
RandomUUID(first, i) == first + i - 1

NewItems(uniqueUrls, first, type) ==
    [i \in 1..Len(uniqueUrls) |->
        Item(RandomUUID(first, i), uniqueUrls[i], "analyzing", 0, NoResult, type)]

\* an updater in which the new item takes the place of the one of its URL
AddToQueueReplaces(prev, newItems) ==
    LET newUrls == {newItems[i].url : i \in DOMAIN newItems}
    IN  newItems \o SelectSeq(prev, LAMBDA i : i.url \notin newUrls)

\* the updater of setQueue in handleAnalyzeBatch
AddToQueue(prev, newItems) ==
    LET existingUrls == {prev[i].url : i \in DOMAIN prev}
        filteredNew == SelectSeq(newItems, LAMBDA i : i.url \notin existingUrls)
    IN  filteredNew \o prev

\* updateItem(id, updates): { ...item, ...updates } on the item with this id
UpdateItem(q, id, updates) ==
    [k \in DOMAIN q |->
        IF q[k].id = id
        THEN [f \in DOMAIN q[k] |-> IF f \in DOMAIN updates THEN updates[f] ELSE q[k][f]]
        ELSE q[k]]

Find(q, id) == {k \in DOMAIN q : q[k].id = id}

\* the sub-items expandPlaylist makes for `item`
SubItems(item, platform, mockCount, first, type) ==
    [i \in 1..mockCount |->
        Item(RandomUUID(first, i), SubUrl(item.url, i), "ready", 0,
             Data(platform, TRUE, type, FALSE), type)]

\* a splice that deletes nothing: newQueue.splice(index, 0, ...newItems)
SpliceKeeps(prev, index, newItems) ==
    SubSeq(prev, 1, index - 1) \o newItems \o SubSeq(prev, index, Len(prev))

\* newQueue.splice(index, 1, ...newItems)
Splice(prev, index, newItems) ==
    SubSeq(prev, 1, index - 1) \o newItems \o SubSeq(prev, index + 1, Len(prev))

\* the updater of setQueue in expandPlaylist
Expanded(prev, itemId, newItems) ==
    IF Find(prev, itemId) = {} THEN prev
    ELSE Splice(prev, CHOOSE k \in Find(prev, itemId) : \A j \in Find(prev, itemId) : k <= j,
                newItems)

\* Math.floor(Math.random() * 5) + 3
MockCounts == 3..7

\* ------------------------------------------------------------ the timers
\* clearInterval(intervalsRef.current[id]): the active timers left
ClearInterval(ts, ref, id) ==
    IF id \in DOMAIN ref THEN {t \in ts : t.h # ref[id]} ELSE ts

Put(ref, id, h) == [k \in DOMAIN ref \cup {id} |-> IF k = id THEN h ELSE ref[k]]

Delete(ref, id) == [k \in DOMAIN ref \ {id} |-> ref[k]]

Timer(h, id, progress) == [h |-> h, id |-> id, progress |-> progress]

\* Math.round of a value given in 1/Scale parts: halves go up
Round(parts) == (2 * parts + Scale) \div (2 * Scale)

\* Math.random(): the values j/Scale of [0, 1)
Random == 0 .. Scale - 1

\* Math.random() * 5 + 1, in 1/Scale parts: values of [1, 6)
Increments == {r * 5 + 1 * Scale : r \in Random}

\* The part of startDownload after `await requestNotificationPermission()`,
\* run for the item its closure found, installing the timer with handle h.
\* s holds queue, history, storage, intervalsRef and timers.
ProceedNoClear(s, item, h) ==
    LET hs == IF item.result # NoResult /\ ~HasIndex(item.url)
              THEN AddToHistory(s.history, s.storage, item.result, item.url)
              ELSE <<s.history, s.storage>>
    IN  [queue |-> UpdateItem(s.queue, item.id, [status |-> "downloading", progress |-> 0]),
         history |-> hs[1],
         storage |-> hs[2],
         timers |-> s.timers \cup {Timer(h, item.id, 0)},
         intervalsRef |-> Put(s.intervalsRef, item.id, h)]

Proceed(s, item, h) ==
    LET hs == IF item.result # NoResult /\ ~HasIndex(item.url)
              THEN AddToHistory(s.history, s.storage, item.result, item.url)
              ELSE <<s.history, s.storage>>
    IN  [queue |-> UpdateItem(s.queue, item.id, [status |-> "downloading", progress |-> 0]),
         history |-> hs[1],
         storage |-> hs[2],
         timers |-> ClearInterval(s.timers, s.intervalsRef, item.id)
                        \cup {Timer(h, item.id, 0)},
         intervalsRef |-> Put(s.intervalsRef, item.id, h)]

TickedNoClear(s, t, inc) ==
    LET progress == t.progress + inc
    IN  [queue |-> IF progress >= Complete * Scale
                   THEN UpdateItem(s.queue, t.id, [status |-> "completed", progress |-> Complete])
                   ELSE UpdateItem(s.queue, t.id, [progress |-> Min(Complete, Round(progress))]),
         history |-> s.history,
         storage |-> s.storage,
         timers |-> (s.timers \ {t}) \cup {Timer(t.h, t.id, Min(progress, Complete * Scale))},
         intervalsRef |-> s.intervalsRef]

\* a callback that adds the increment twice
TickedTwice(s, t, inc) ==
    LET progress == t.progress + 2 * inc
    IN  IF progress >= Complete * Scale
        THEN [queue |-> UpdateItem(s.queue, t.id, [status |-> "completed", progress |-> Complete]),
              history |-> s.history,
              storage |-> s.storage,
              timers |-> {IF u.h = t.h THEN Timer(t.h, t.id, Complete * Scale) ELSE u :
                            u \in ClearInterval(s.timers, s.intervalsRef, t.id)},
              intervalsRef |-> Delete(s.intervalsRef, t.id)]
        ELSE [queue |-> UpdateItem(s.queue, t.id,
                                   [progress |-> Min(Complete, Round(progress))]),
              history |-> s.history,
              storage |-> s.storage,
              timers |-> (s.timers \ {t}) \cup {Timer(t.h, t.id, progress)},
              intervalsRef |-> s.intervalsRef]

\* One run of the setInterval callback of timer t with Math.random() giving
\* the increment inc (1/Scale parts).
Ticked(s, t, inc) ==
    LET progress == t.progress + inc
    IN  IF progress >= Complete * Scale
        THEN [queue |-> UpdateItem(s.queue, t.id, [status |-> "completed", progress |-> Complete]),
              history |-> s.history,
              storage |-> s.storage,
              timers |-> {IF u.h = t.h THEN Timer(t.h, t.id, Complete * Scale) ELSE u :
                            u \in ClearInterval(s.timers, s.intervalsRef, t.id)},
              intervalsRef |-> Delete(s.intervalsRef, t.id)]
        ELSE [queue |-> UpdateItem(s.queue, t.id,
                                   [progress |-> Min(Complete, Round(progress))]),
              history |-> s.history,
              storage |-> s.storage,
              timers |-> (s.timers \ {t}) \cup {Timer(t.h, t.id, progress)},
              intervalsRef |-> s.intervalsRef]

Now == [queue |-> queue, history |-> history, storage |-> storage,
        timers |-> timers, intervalsRef |-> intervalsRef]

Becomes(state) ==
    \E s \in {state} :
        /\ queue' = s.queue
        /\ history' = s.history
        /\ storage' = s.storage
        /\ timers' = s.timers
        /\ intervalsRef' = s.intervalsRef

\* ------------------------------------------------- what the page offers
\* the compact row is rendered for an item when audio is selected and the
\* item has a result; it has no remove button
AudioLayout(item) == downloadType = "audio" /\ item.result # NoResult

CanRemove(item) == ~AudioLayout(item)

CanExpand(item) ==
    /\ item.result # NoResult
    /\ item.result.isPlaylist
    /\ (AudioLayout(item) \/ item.status = "ready")

CanStart(item) == item.status = "ready" /\ ~item.result.isPlaylist

\* the texts of at most maxLen words, each one of urls or another word
Texts(urls, maxLen) == UNION {[1..n -> {Word} \cup urls] : n \in 1..maxLen}

\* the increments the queue specification draws: one value of Increments,
\* that of Math.random() = 7/8, which is 5.375
CoarseIncrements == {((7 * Scale) \div 8) * 5 + 1 * Scale}

\* the answers of ai.models.generateContent the queue specification draws
QueueResponses ==
    {Response("throw", NoResult),
     Response("json", Data("YouTube", TRUE, "video", FALSE)),
     Response("json", Data("YouTube", TRUE, "video", TRUE)),
     Response("json", Data("Spotify", FALSE, "audio", TRUE))}

\* ------------------------------------------------------------ Downloader
InitDownloader ==
    /\ queue = <<>>
    /\ history = <<>>
    /\ storage = NoStorage
    /\ downloadType = "video"
    /\ intervalsRef = <<>>
    /\ timers = {}
    /\ nextId = 1
    /\ nextCall = 1
    /\ pendingAnalyses = {}
    /\ pendingStarts = {}
    /\ pendingTimeouts = <<>>
    /\ notification \in {"unsupported", "default", "granted", "denied"}
    /\ removed = {}

\* handleAnalyzeBatch with inputText = text; inputText is '' again afterwards
HandleAnalyzeBatch(text) ==
    \E uniqueUrls \in {UniqueUrls(ExtractUrls(text))} :
        \E newItems \in {NewItems(uniqueUrls, nextId, downloadType)} :
            /\ Len(uniqueUrls) > 0
            /\ queue' = AddToQueue(queue, newItems)
            /\ nextId' = nextId + Len(uniqueUrls)
            /\ pendingAnalyses' = pendingAnalyses \cup
                   {[id |-> newItems[i].id, url |-> newItems[i].url] : i \in DOMAIN newItems}
            /\ UNCHANGED <<history, storage, downloadType, intervalsRef, timers, nextCall,
                           pendingStarts, pendingTimeouts, notification, removed>>

\* the continuation of `await analyzeLink(item.url)` for one new item
AnalyzedAlwaysReady(q, id, outcome) ==
    IF outcome.rejected
    THEN UpdateItem(q, id, [status |-> "error"])
    ELSE UpdateItem(q, id, [status |-> "ready", result |-> outcome.value])

Analyzed(q, id, outcome) ==
    IF outcome.rejected
    THEN UpdateItem(q, id, [status |-> "error"])
    ELSE IF outcome.value.isValid
         THEN UpdateItem(q, id, [status |-> "ready", result |-> outcome.value])
         ELSE UpdateItem(q, id, [status |-> "error", result |-> outcome.value])

AnalysisDone(p, resp) ==
    /\ p \in pendingAnalyses
    /\ pendingAnalyses' = pendingAnalyses \ {p}
    /\ queue' = Analyzed(queue, p.id, AnalyzeLink(resp))
    /\ UNCHANGED <<history, storage, downloadType, intervalsRef, timers, nextId, nextCall,
                   pendingStarts, pendingTimeouts, notification, removed>>

ExpandPlaylist(k, mockCount) ==
    /\ k \in DOMAIN queue
    /\ CanExpand(queue[k])
    /\ queue' = Expanded(queue, queue[k].id,
                         SubItems(queue[k], queue[k].result.platform, mockCount, nextId,
                                  downloadType))
    /\ nextId' = nextId + mockCount
    /\ UNCHANGED <<history, storage, downloadType, intervalsRef, timers, nextCall,
                   pendingAnalyses, pendingStarts, pendingTimeouts, notification, removed>>

\* startDownload once `item` was found 'ready' in the queue of its closure:
\* it awaits requestNotificationPermission(), which asks the browser only when
\* the permission is "default"; otherwise the rest runs before any other event
Begin(item) ==
    /\ nextCall' = nextCall + 1
    /\ IF notification = "default"
       THEN /\ pendingStarts' = pendingStarts \cup {[call |-> nextCall, item |-> item]}
            /\ UNCHANGED <<queue, history, storage, timers, intervalsRef>>
       ELSE /\ Becomes(Proceed(Now, item, nextCall))
            /\ UNCHANGED pendingStarts

StartDownload(k) ==
    /\ k \in DOMAIN queue
    /\ CanStart(queue[k])
    /\ Begin(queue[k])
    /\ UNCHANGED <<downloadType, nextId, pendingAnalyses, pendingTimeouts, notification,
                   removed>>

\* the user answers (or dismisses) the permission prompt of one waiting call
PermissionAnswered(p, answer) ==
    /\ p \in pendingStarts
    /\ IF notification = "default"
       THEN answer \in {"granted", "denied", "default"}
       ELSE answer = notification
    /\ notification' = answer
    /\ pendingStarts' = pendingStarts \ {p}
    /\ Becomes(Proceed(Now, p.item, p.call))
    /\ UNCHANGED <<downloadType, nextId, nextCall, pendingAnalyses, pendingTimeouts,
                   removed>>

ReadyItems(q) == SelectSeq(q, LAMBDA item : item.status = "ready")

\* 'Descargar Todo' is rendered inside {totalItems > 1 && ...} and
\* {readyCount > 0 && ...}
CanDownloadAll(q) == Len(q) > 1 /\ Len(ReadyItems(q)) > 0

HandleDownloadAll ==
    /\ CanDownloadAll(queue)
    /\ pendingTimeouts' = pendingTimeouts \o ReadyItems(queue)
    /\ UNCHANGED <<queue, history, storage, downloadType, intervalsRef, timers, nextId,
                   nextCall, pendingAnalyses, pendingStarts, notification, removed>>

\* a timeout of handleDownloadAll fires: startDownload(item.id) of the render
\* that handleDownloadAll ran in, whose queue holds the item as it was then
TimeoutFires(k) ==
    /\ k \in DOMAIN pendingTimeouts
    /\ pendingTimeouts' = SubSeq(pendingTimeouts, 1, k - 1)
                              \o SubSeq(pendingTimeouts, k + 1, Len(pendingTimeouts))
    /\ Begin(pendingTimeouts[k])
    /\ UNCHANGED <<downloadType, nextId, pendingAnalyses, notification, removed>>

Tick(t, inc) ==
    /\ t \in timers
    /\ Becomes(Ticked(Now, t, inc))
    /\ UNCHANGED <<downloadType, nextId, nextCall, pendingAnalyses, pendingStarts,
                   pendingTimeouts, notification, removed>>

RemoveItem(k) ==
    /\ k \in DOMAIN queue
    /\ CanRemove(queue[k])
    /\ timers' = ClearInterval(timers, intervalsRef, queue[k].id)
    /\ queue' = SelectSeq(queue, LAMBDA i : i.id # queue[k].id)
    /\ removed' = removed \cup {queue[k].id}
    /\ UNCHANGED <<history, storage, downloadType, intervalsRef, nextId, nextCall,
                   pendingAnalyses, pendingStarts, pendingTimeouts, notification>>

\* the VIDEO MP4 / AUDIO MP3 buttons
Retyped(q, type) ==
    [k \in DOMAIN q |-> IF q[k].status = "ready" THEN [q[k] EXCEPT !.type = type] ELSE q[k]]

SetDownloadType(type) ==
    /\ downloadType' = type
    /\ queue' = Retyped(queue, type)
    /\ UNCHANGED <<history, storage, intervalsRef, timers, nextId, nextCall,
                   pendingAnalyses, pendingStarts, pendingTimeouts, notification, removed>>

ClearHistory ==
    /\ Len(history) > 0
    /\ storage' = NoStorage
    /\ history' = <<>>
    /\ UNCHANGED <<queue, downloadType, intervalsRef, timers, nextId, nextCall,
                   pendingAnalyses, pendingStarts, pendingTimeouts, notification, removed>>

\* the mount effect: localStorage.getItem, JSON.parse, setHistory
Loaded(st) == IF st.present THEN Parse(st.text) ELSE <<>>

\* the page is loaded again: everything but localStorage and the permission
\* starts over
Reload ==
    /\ queue' = <<>>
    /\ history' = Loaded(storage)
    /\ downloadType' = "video"
    /\ intervalsRef' = <<>>
    /\ timers' = {}
    /\ nextId' = 1
    /\ nextCall' = 1
    /\ pendingAnalyses' = {}
    /\ pendingStarts' = {}
    /\ pendingTimeouts' = <<>>
    /\ removed' = {}
    /\ UNCHANGED <<storage, notification>>

NoOp == [op |-> "none", arg |-> <<>>]

Op(op, arg) == [op |-> op, arg |-> arg]

\* --------------------------------------------- one call of analyzeLink(url)
NoResponse == Response("none", NoResult)

InitAnalysis ==
    analysis = [pc |-> "idle", url |-> Word, response |-> NoResponse,
                outcome |-> Resolved(NoResult)]

\* analyzeLink(url) is called and awaits ai.models.generateContent
CallAnalyzeLink(url) ==
    /\ analysis.pc # "awaiting"
    /\ analysis' = [pc |-> "awaiting", url |-> url, response |-> NoResponse,
                    outcome |-> Resolved(NoResult)]
    /\ lastOp' = Op("analyzeLink", url)
    /\ UNCHANGED <<dlVars, removed, ticks, genVars, appVars>>

\* generateContent settles and the rest of analyzeLink runs
GenerateContentSettles(resp) ==
    /\ analysis.pc = "awaiting"
    /\ analysis' = [analysis EXCEPT !.pc = "settled", !.response = resp,
                                    !.outcome = AnalyzeLink(resp)]
    /\ lastOp' = Op("generateContent", resp)
    /\ UNCHANGED <<dlVars, removed, ticks, genVars, appVars>>

\* ---------------------------------------------------------------- Generator
\* string | null, a string being the sequence of its parts
Null == [null |-> TRUE, text |-> <<>>]
Str(text) == [null |-> FALSE, text |-> text]
Truthy(s) == ~s.null /\ s.text # <<>>

\* the operation of the video API: { done, response.generatedVideos[0].video.uri }
Operation(done, uri) == [done |-> done, uri |-> uri]
Uris == {Null, Str(<<>>), Str(<<"https://video/1?alt=media">>)}
Running == Operation(FALSE, Null)

\* the while condition of generateVideo
ContinueWhenDone(operation) == operation.done

Continue(operation) == ~operation.done

\* what generateVideo returns for the operation that ended its loop
Returned(operation) ==
    IF Truthy(operation.uri)
    THEN Str(operation.uri.text \o <<"&key=", "API_KEY">>)
    ELSE Null

\* the substrings handleGenerate looks for in err.message
NotFoundMarker == "Requested entity was not found"
Markers ==
    {NotFoundMarker, "INVALID_ARGUMENT", "PERMISSION_DENIED", "RESOURCE_EXHAUSTED",
     "UNAVAILABLE", "SAFETY"}

\* HTTP statuses an error carries; NoStatus is a status that is undefined
NoStatus == 0
Statuses == {NoStatus, 400, 403, 404, 429, 500, 503}

\* a thrown value: falsy (null, undefined), or an object whose message holds
\* the markers in `message`, with err.status and err.response?.status
Err(truthy, message, status, responseStatus) ==
    [truthy |-> truthy, message |-> message, status |-> status,
     responseStatus |-> responseStatus]

FalsyError == Err(FALSE, {}, NoStatus, NoStatus)

Errors ==
    {FalsyError} \cup
    {Err(TRUE, m, s, r) : m \in SUBSET Markers, s \in Statuses, r \in Statuses}

\* ReferenceError: Notification is not defined
ReferenceError == Err(TRUE, {}, NoStatus, NoStatus)

Includes(msg, marker) == marker \in msg

\* err.status || err.response?.status
StatusOf(err) == IF err.status # NoStatus THEN err.status ELSE err.responseStatus

NoError == "null"
Generic == "Hubo un error generando el video. Intenta de nuevo."
KeyInvalid ==
    "La llave API seleccionada no es válida o el proyecto no tiene acceso al modelo Veo. Por favor selecciona una nueva."
PromptInvalid ==
    "La descripción proporcionada no es válida. Por favor, sé más específico o evita contenido que viole las políticas de seguridad."
Denied ==
    "Permiso denegado. Verifica que tu API Key tenga habilitada la facturación en Google Cloud Console."
Quota == "Has excedido el límite de cuota de la API. Por favor intenta más tarde."
Saturated ==
    "El servicio de video está temporalmente saturado. Inténtalo de nuevo en unos minutos."
Blocked ==
    "La solicitud fue bloqueada por los filtros de seguridad. Intenta modificar tu descripción."

Caught(errorMessage, resetKey) == [errorMessage |-> errorMessage, resetKey |-> resetKey]

\* the catch block of handleGenerate: the message it passes to setError and
\* whether it calls setHasKey(false)
CatchStatusFirst(err) ==
    IF ~err.truthy THEN Caught(Generic, FALSE)
    ELSE LET msg == err.message
             status == StatusOf(err)
         IN  IF status = 404 THEN Caught(KeyInvalid, TRUE)
             ELSE IF status = 400 THEN Caught(PromptInvalid, FALSE)
             ELSE IF status = 403 THEN Caught(Denied, FALSE)
             ELSE IF status = 429 THEN Caught(Quota, FALSE)
             ELSE IF status = 503 THEN Caught(Saturated, FALSE)
             ELSE IF Includes(msg, NotFoundMarker) THEN Caught(KeyInvalid, TRUE)
             ELSE IF Includes(msg, "INVALID_ARGUMENT") THEN Caught(PromptInvalid, FALSE)
             ELSE IF Includes(msg, "PERMISSION_DENIED") THEN Caught(Denied, FALSE)
             ELSE IF Includes(msg, "RESOURCE_EXHAUSTED") THEN Caught(Quota, FALSE)
             ELSE IF Includes(msg, "UNAVAILABLE") THEN Caught(Saturated, FALSE)
             ELSE IF Includes(msg, "SAFETY") THEN Caught(Blocked, FALSE)
             ELSE Caught(Generic, FALSE)

Catch(err) ==
    IF ~err.truthy THEN Caught(Generic, FALSE)
    ELSE LET msg == err.message
             status == StatusOf(err)
         IN  IF Includes(msg, NotFoundMarker) \/ status = 404
             THEN Caught(KeyInvalid, TRUE)
             ELSE IF status = 400 \/ Includes(msg, "INVALID_ARGUMENT")
             THEN Caught(PromptInvalid, FALSE)
             ELSE IF status = 403 \/ Includes(msg, "PERMISSION_DENIED")
             THEN Caught(Denied, FALSE)
             ELSE IF status = 429 \/ Includes(msg, "RESOURCE_EXHAUSTED")
             THEN Caught(Quota, FALSE)
             ELSE IF status = 503 \/ Includes(msg, "UNAVAILABLE")
             THEN Caught(Saturated, FALSE)
             ELSE IF Includes(msg, "SAFETY")
             THEN Caught(Blocked, FALSE)
             ELSE Caught(Generic, FALSE)

\* the prompts typed: empty, blank, and a description
Prompts == {"", " ", "un gato surfeando"}
Trim(p) == IF p = " " THEN "" ELSE p

\* where window.aistudio and process.env.API_KEY are present, and whether the
\* checkApiKey of the mount effect is still to run
Environment(aistudio, envKey, pending) ==
    [aistudio |-> aistudio, envKey |-> envKey, pending |-> pending]

InitGenerator ==
    /\ prompt = ""
    /\ isGenerating = FALSE
    /\ videoUri = Null
    /\ error = NoError
    /\ hasKey = FALSE
    /\ keyCheck \in {Environment(a, k, TRUE) : a, k \in BOOLEAN}
    /\ selecting = 0
    /\ generations = <<>>

\* a handleGenerate call: where it is, the operation as the server has it,
\* and the waits and polls generateVideo has made
Generation(pc, remote, waits, polls) ==
    [pc |-> pc, remote |-> remote, waits |-> waits, polls |-> polls]

\* the number the next handleGenerate call is known by
FreeCall ==
    CHOOSE c \in 1..(Cardinality(DOMAIN generations) + 1) : c \notin DOMAIN generations

Without(f, c) == [d \in DOMAIN f \ {c} |-> f[d]]
With(f, c, v) == [d \in DOMAIN f \cup {c} |-> IF d = c THEN v ELSE f[d]]

\* checkApiKey, with what aistudio.hasSelectedApiKey() answers
CheckApiKey(selected) ==
    /\ keyCheck.pending
    /\ keyCheck' = [keyCheck EXCEPT !.pending = FALSE]
    /\ hasKey' = IF keyCheck.aistudio THEN selected
                 ELSE IF keyCheck.envKey THEN TRUE ELSE hasKey
    /\ lastOp' = Op("checkApiKey", selected)
    /\ UNCHANGED <<prompt, isGenerating, videoUri, error, selecting, generations>>
    /\ UNCHANGED <<dlVars, removed, ticks, analysis, appVars>>

\* handleSelectKey up to its await, offered while hasKey is false: with
\* window.aistudio it opens the dialog of aistudio.openSelectKey() and waits
\* for it, hasKey is as it was and the button is still there
HandleSelectKey ==
    /\ ~hasKey
    /\ selecting' = IF keyCheck.aistudio THEN selecting + 1 ELSE selecting
    /\ lastOp' = Op("handleSelectKey", <<>>)
    /\ UNCHANGED <<prompt, isGenerating, videoUri, error, hasKey, keyCheck, generations>>
    /\ UNCHANGED <<dlVars, removed, ticks, analysis, appVars>>

\* the promise of one aistudio.openSelectKey() resolves (its dialog was
\* closed): the rest of handleSelectKey runs, setHasKey(true)
SelectKeyClosed ==
    /\ selecting > 0
    /\ selecting' = selecting - 1
    /\ hasKey' = TRUE
    /\ lastOp' = Op("openSelectKey", <<>>)
    /\ UNCHANGED <<prompt, isGenerating, videoUri, error, keyCheck, generations>>
    /\ UNCHANGED <<dlVars, removed, ticks, analysis, appVars>>

\* the openSelectKey() dialogs a run has open at a time
Dialogs == selecting <= MaxDialogs

\* the onChange of the prompt field
SetPrompt(p) ==
    /\ hasKey
    /\ prompt' = p
    /\ lastOp' = Op("setPrompt", p)
    /\ UNCHANGED <<isGenerating, videoUri, error, hasKey, keyCheck, selecting, generations>>
    /\ UNCHANGED <<dlVars, removed, ticks, analysis, appVars>>

\* requestNotificationPermission() with Notification.permission as it is
\* ("unsupported": no Notification in window) and the answer the user gives
\* when the browser asks: whether it asks, the permission afterwards and
\* the value returned
RequestNotificationPermission(permission, answer) ==
    IF permission = "unsupported"
    THEN [asked |-> FALSE, permission |-> permission, returns |-> FALSE]
    ELSE IF permission = "granted"
    THEN [asked |-> FALSE, permission |-> permission, returns |-> TRUE]
    ELSE IF permission # "denied"
    THEN [asked |-> TRUE, permission |-> answer, returns |-> answer = "granted"]
    ELSE [asked |-> FALSE, permission |-> permission, returns |-> FALSE]

\* sendNotification(title, body): it reads Notification.permission with no
\* look at the window, a ReferenceError where Notification is not defined
SendNotification(permission) ==
    [shown |-> permission = "granted", threw |-> permission = "unsupported"]

\* handleGenerate after its await: the three setters, then generateVideo up
\* to its first await
Generate(c) ==
    /\ isGenerating' = TRUE
    /\ error' = NoError
    /\ videoUri' = Null
    /\ generations' = With(generations, c, Generation("starting", Running, 0, 0))

\* a click on the button, which is there while hasKey and enabled while
\* !isGenerating && prompt; the request's arguments play no part afterwards
HandleGenerate ==
    /\ hasKey /\ ~isGenerating /\ prompt # ""
    /\ Trim(prompt) # ""
    /\ IF RequestNotificationPermission(notification, notification).asked
       THEN /\ generations' =
                   With(generations, FreeCall, Generation("permission", Running, 0, 0))
            /\ UNCHANGED <<isGenerating, error, videoUri>>
       ELSE Generate(FreeCall)
    /\ lastOp' = Op("handleGenerate", FreeCall)
    /\ UNCHANGED <<prompt, hasKey, keyCheck, selecting>>
    /\ UNCHANGED <<dlVars, removed, ticks, analysis, appVars>>

\* the user answers (or dismisses) the permission prompt of call c
GenerationPermissionAnswered(c, answer) ==
    /\ c \in DOMAIN generations
    /\ generations[c].pc = "permission"
    /\ IF notification = "default"
       THEN answer \in {"granted", "denied", "default"}
       ELSE answer = notification
    /\ notification' = RequestNotificationPermission(notification, answer).permission
    /\ Generate(c)
    /\ lastOp' = Op("permission", c)
    /\ UNCHANGED <<prompt, hasKey, keyCheck, selecting>>
    /\ UNCHANGED <<dlRest, removed, ticks, analysis, appVars>>

\* the server finishes the operation of call c, with or without a video
OperationCompletes(c, uri) ==
    /\ c \in DOMAIN generations
    /\ generations[c].pc \in {"starting", "waiting", "polling"}
    /\ ~generations[c].remote.done
    /\ generations' = [generations EXCEPT ![c].remote = Operation(TRUE, uri)]
    /\ lastOp' = Op("operation completes", c)
    /\ UNCHANGED <<prompt, isGenerating, videoUri, error, hasKey, keyCheck, selecting>>
    /\ UNCHANGED <<dlVars, removed, ticks, analysis, appVars>>

\* generateVideo holds `operation`: it goes on waiting, or returns and
\* handleGenerate finishes: setVideoUri, sendNotification (which reads
\* Notification.permission, a ReferenceError where Notification is not
\* defined, caught by handleGenerate), finally setIsGenerating(false)
Holds(c, operation) ==
    IF Continue(operation)
    THEN /\ generations' = [generations EXCEPT ![c].pc = "waiting",
                                                ![c].waits = @ + 1]
         /\ UNCHANGED <<isGenerating, videoUri, error>>
    ELSE /\ generations' = Without(generations, c)
         /\ videoUri' = Returned(operation)
         /\ error' = IF SendNotification(notification).threw
                     THEN Catch(ReferenceError).errorMessage
                     ELSE error
         /\ isGenerating' = FALSE

\* ai.models.generateVideos answers with the operation
StartResponds(c) ==
    /\ c \in DOMAIN generations
    /\ generations[c].pc = "starting"
    /\ Holds(c, generations[c].remote)
    /\ lastOp' = Op("generateVideos", [call |-> c, operation |-> generations[c].remote])
    /\ UNCHANGED <<prompt, hasKey, keyCheck, selecting>>
    /\ UNCHANGED <<dlVars, removed, ticks, analysis, appVars>>

\* the 5000 ms timeout fires and generateVideo asks for the operation; polls
\* that find it unfinished are made maxPolls times at most
WaitElapses(c, maxPolls) ==
    /\ c \in DOMAIN generations
    /\ generations[c].pc = "waiting"
    /\ generations[c].polls < maxPolls \/ generations[c].remote.done
    /\ generations' = [generations EXCEPT ![c].pc = "polling", ![c].polls = @ + 1]
    /\ lastOp' = Op("timeout", c)
    /\ UNCHANGED <<prompt, isGenerating, videoUri, error, hasKey, keyCheck, selecting>>
    /\ UNCHANGED <<dlVars, removed, ticks, analysis, appVars>>

\* ai.operations.getVideosOperation answers with the operation
PollResponds(c) ==
    /\ c \in DOMAIN generations
    /\ generations[c].pc = "polling"
    /\ Holds(c, generations[c].remote)
    /\ lastOp' = Op("getVideosOperation",
                    [call |-> c, operation |-> generations[c].remote,
                     polls |-> generations[c].polls])
    /\ UNCHANGED <<prompt, hasKey, keyCheck, selecting>>
    /\ UNCHANGED <<dlVars, removed, ticks, analysis, appVars>>

\* generateVideos or getVideosOperation throws err: generateVideo rethrows
\* it, handleGenerate catches it
GenerationFails(c, err) ==
    /\ c \in DOMAIN generations
    /\ generations[c].pc \in {"starting", "polling"}
    /\ generations' = Without(generations, c)
    /\ \E caught \in {Catch(err)} :
           /\ hasKey' = IF caught.resetKey THEN FALSE ELSE hasKey
           /\ error' = caught.errorMessage
    /\ isGenerating' = FALSE
    /\ lastOp' = Op("generateVideo threw", [call |-> c, err |-> err, hasKey |-> hasKey])
    /\ UNCHANGED <<prompt, videoUri, keyCheck, selecting>>
    /\ UNCHANGED <<dlVars, removed, ticks, analysis, appVars>>

\* ---------------------------------------------------------------------- App
Theme(id, name, primary, secondary, bgGradient, accentGlow) ==
    [id |-> id, name |-> name, primary |-> primary, secondary |-> secondary,
     bgGradient |-> bgGradient, accentGlow |-> accentGlow]

themes ==
    <<Theme("neon", "Neon Cyber", "cyan", "blue", "from-cyan-400 to-blue-600", "#06b6d4"),
      Theme("sunset", "Sunset Drive", "fuchsia", "orange",
            "from-fuchsia-500 to-orange-500", "#d946ef"),
      Theme("forest", "Forest Rain", "emerald", "lime", "from-emerald-400 to-lime-600",
            "#10b981"),
      Theme("royal", "Royal Velvet", "violet", "rose", "from-violet-500 to-rose-500",
            "#8b5cf6"),
      Theme("ocean", "Ocean Deep", "blue", "teal", "from-blue-500 to-teal-400", "#3b82f6"),
      Theme("cosmic", "Cosmic Dust", "purple", "pink", "from-purple-500 to-pink-500",
            "#a855f7")>>

\* `${n}px`
Px(n) == <<n, "px">>
Unset == <<>>

InitApp ==
    /\ currentTheme = themes[1]
    /\ showMenu = FALSE
    /\ mouse = [x |-> Unset, y |-> Unset]

\* the logo button; its mousedown is inside menuRef
ToggleMenu ==
    /\ showMenu' = ~showMenu
    /\ lastOp' = Op("toggleMenu", <<>>)
    /\ UNCHANGED <<currentTheme, mouse>>
    /\ UNCHANGED <<dlVars, removed, ticks, analysis, genVars>>

\* the state a click on a theme button of the menu leaves
ChosenMenuOpen(theme) == [currentTheme |-> theme, showMenu |-> TRUE]

Chosen(theme) == [currentTheme |-> theme, showMenu |-> FALSE]

\* a theme button, rendered while showMenu
ChooseTheme(i) ==
    /\ showMenu
    /\ i \in DOMAIN themes
    /\ currentTheme' = Chosen(themes[i]).currentTheme
    /\ showMenu' = Chosen(themes[i]).showMenu
    /\ lastOp' = Op("chooseTheme", themes[i])
    /\ UNCHANGED mouse
    /\ UNCHANGED <<dlVars, removed, ticks, analysis, genVars>>

\* handleClickOutside for a mousedown whose target is outside menuRef
ClickOutside ==
    /\ showMenu' = FALSE
    /\ lastOp' = Op("clickOutside", <<>>)
    /\ UNCHANGED <<currentTheme, mouse>>
    /\ UNCHANGED <<dlVars, removed, ticks, analysis, genVars>>

\* handleMouseMove for an event at (clientX, clientY) over the content
\* element whose bounding rectangle starts at (left, top)
HandleMouseMove(clientX, clientY, left, top) ==
    /\ mouse' = [x |-> Px(clientX - left), y |-> Px(clientY - top)]
    /\ lastOp' = Op("mouseMove", <<>>)
    /\ UNCHANGED <<currentTheme, showMenu>>
    /\ UNCHANGED <<dlVars, removed, ticks, analysis, genVars>>

\* ------------------------------------------------------------ the whole
Init ==
    /\ InitDownloader
    /\ lastOp = NoOp
    /\ ticks = <<>>
    /\ InitAnalysis
    /\ InitGenerator
    /\ InitApp

\* what bounds a run: the ids handed out, the startDownload calls that got
\* past their guard or are scheduled by handleDownloadAll, and the analyses
\* in flight
Bounded(maxId, maxCalls, maxPending) ==
    /\ nextId <= maxId + 1
    /\ nextCall + Len(pendingTimeouts) <= maxCalls + 1
    /\ Cardinality(pendingAnalyses) <= maxPending

\* the text the user pastes in the Downloader specification: one URL, alone
\* or repeated among other words
CoreTexts == {<<Url(1)>>, <<Url(1), Word, Url(1)>>}

\* ------------------------- the Downloader: paste, analyse, expand, start, remove
\* one paste is analysed at a time
Core == Bounded(MaxId, MaxCalls, 1)' /\ UNCHANGED <<lastOp, ticks, others>>

Next ==
    \/ \E text \in CoreTexts : HandleAnalyzeBatch(text) /\ Core
    \/ \E p \in pendingAnalyses, resp \in QueueResponses : AnalysisDone(p, resp) /\ Core
    \/ \E k \in DOMAIN queue, n \in MockCounts : ExpandPlaylist(k, n) /\ Core
    \/ \E k \in DOMAIN queue : StartDownload(k) /\ Core
    \/ \E p \in pendingStarts, a \in {"granted", "denied", "default"} :
           PermissionAnswered(p, a) /\ Core
    \/ \E t \in timers, inc \in CoarseIncrements : Tick(t, inc) /\ Core
    \/ \E k \in DOMAIN queue : RemoveItem(k) /\ Core

\* App mounts the Downloader and not the Generator: its environment is any one
InitCore == Init /\ keyCheck = Environment(TRUE, TRUE, TRUE)

Spec == InitCore /\ [][Next]_vars

Ids(q) == {q[k].id : k \in DOMAIN q}

\* C1: no two items of the queue have the same id, whatever sequence of
\* handleAnalyzeBatch, expandPlaylist, removeItem, startDownload and timer
\* ticks led to the state.
C1_UniqueIds ==
    \A i, j \in DOMAIN queue : i # j => queue[i].id # queue[j].id

\* several items are queued after an expansion, a removal and a started
\* download
C1_Witness ==
    /\ Len(queue) >= 2
    /\ removed # {}
    /\ \E k \in DOMAIN queue : queue[k].status \in {"downloading", "completed"}
    /\ \E k \in DOMAIN queue : HasIndex(queue[k].url)

\* C5: once removeItem(id) has run, no progress timer for id is active.
C5_RemovedHasNoTimer ==
    \A t \in timers : t.id \notin removed

\* C6: the step that sets an item 'completed' clears its timer and deletes
\* its handle from intervalsRef, and so a 'completed' item never has an
\* active timer or a handle.
C6_CompletedHasNoTimer ==
    \A k \in DOMAIN queue :
        queue[k].status = "completed" =>
            /\ \A t \in timers : t.id # queue[k].id
            /\ queue[k].id \notin DOMAIN intervalsRef

C6_CompletionStep ==
    \A k \in DOMAIN queue' :
        /\ queue'[k].status = "completed"
        /\ \A j \in DOMAIN queue : queue[j].id = queue'[k].id => queue[j].status # "completed"
        => /\ \A t \in timers' : t.id # queue'[k].id
           /\ queue'[k].id \notin DOMAIN intervalsRef'
           /\ \E t \in timers :
                  /\ t.id = queue'[k].id
                  /\ t.id \in DOMAIN intervalsRef
                  /\ t.h = intervalsRef[t.id]

C6_CompletionClearsTimer ==
    [](C6_CompletedHasNoTimer) /\ [][C6_CompletionStep]_vars

\* an item has completed: its status is 'completed' at 100 percent
C6_Witness ==
    \E k \in DOMAIN queue : queue[k].status = "completed" /\ queue[k].progress = Complete

\* ------------------------------------------------ the history list alone
\* the results addToHistory is called with: those of 'ready' items
HistoryResults ==
    {Data("YouTube", TRUE, "video", FALSE), Data("Spotify", TRUE, "audio", FALSE)}

HistoryUrls(h) == {h[i].url : i \in DOMAIN h}

\* addToHistory(resultData, link), as startDownload calls it
AddToHistoryCall(resultData, link) ==
    /\ \E hs \in {AddToHistory(history, storage, resultData, link)} :
           /\ history' = hs[1]
           /\ storage' = hs[2]
    /\ lastOp' = [op |-> "addToHistory",
                  arg |-> [link |-> link, resultData |-> resultData,
                           before |-> Len(history),
                           present |-> link \in HistoryUrls(history)]]
    /\ UNCHANGED <<queue, downloadType, intervalsRef, timers, nextId, nextCall,
                   pendingAnalyses, pendingStarts, pendingTimeouts, notification, removed>>

NextHistory ==
    \/ \E r \in HistoryResults, b \in 1..NHistUrls :
           AddToHistoryCall(r, Url(b)) /\ UNCHANGED <<ticks, others>>
    \/ ClearHistory /\ lastOp' = [op |-> "clearHistory", arg |-> <<>>] /\ UNCHANGED <<ticks, others>>
    \/ Reload /\ lastOp' = [op |-> "mount", arg |-> <<>>] /\ UNCHANGED <<ticks, others>>

\* the permission plays no part here
InitHistory == InitCore /\ notification = "default"

SpecHistory == InitHistory /\ [][NextHistory]_vars

Added == lastOp.op = "addToHistory" /\ lastOp.arg.resultData.isValid

\* C2: history never holds more than five entries, and an addToHistory on a
\* full list puts the new entry first and drops the oldest entries.
C2_AtMostFive == Len(history) <= HistoryCap

C2_FullAddStep ==
    (Added' /\ Len(history) = HistoryCap /\ ~lastOp'.arg.present)
        => /\ Len(history') = HistoryCap
           /\ history'[1].url = lastOp'.arg.link
           /\ \A i \in 2..HistoryCap : history'[i] = history[i - 1]

C2_HistoryCapped == [](C2_AtMostFive) /\ [][C2_FullAddStep]_vars

\* a new URL has just been added to a list that was full
C2_Witness ==
    /\ Added
    /\ lastOp.arg.before = HistoryCap
    /\ ~lastOp.arg.present
    /\ Len(history) = HistoryCap

\* C3: no two history entries have the same url; the entry just added is
\* first; re-adding a URL that is present does not lengthen the list.
C3_NoDuplicateUrls ==
    \A i, j \in DOMAIN history : i # j => history[i].url # history[j].url

C3_AddStep ==
    Added' => /\ history'[1] = HistoryItem(lastOp'.arg.link, lastOp'.arg.resultData.platform)
              /\ lastOp'.arg.present => Len(history') = Len(history)
              /\ HistoryUrls(history') \subseteq HistoryUrls(history) \cup {lastOp'.arg.link}

C3_DuplicatesReplaced == [](C3_NoDuplicateUrls) /\ [][C3_AddStep]_vars

\* a URL that was in the list, not at its head, has just been added again
C3_Witness ==
    /\ Added
    /\ lastOp.arg.present
    /\ Len(history) >= 3
    /\ Len(history) = lastOp.arg.before

\* C12: after addToHistory the text under 'vortex_media_history' is the JSON
\* of the history list in memory and reads back as that list; after
\* clearHistory the key is absent and the list is empty; and what a later
\* mount loads is the list that was in memory.
C12_HistoryPersisted ==
    /\ lastOp.op = "addToHistory" =>
           /\ storage.present
           /\ storage.text = Stringify(history)
           /\ Parse(storage.text) = history
    /\ lastOp.op = "clearHistory" => ~storage.present /\ history = <<>>
    /\ lastOp.op = "mount" =>
           history = IF storage.present THEN Parse(storage.text) ELSE <<>>

\* an entry was added and the list is full
C12_Witness ==
    /\ lastOp.op = "addToHistory"
    /\ Len(history) = HistoryCap
    /\ storage.present
    /\ Len(storage.text) = HistoryCap
    /\ storage.text[1] = <<lastOp.arg.link, lastOp.arg.resultData.platform>>

\* ------------------------------------- the queue alone: paste, analyse, remove
InitQueue == InitCore /\ notification = "default"

Queued == Bounded(MaxQueueId, 0, MaxQueueId)' /\ UNCHANGED <<ticks, others>>

\* the URLs pasted in the queue specification
PastedUrls == {Url(1), Url(2)}

QueueTexts == Texts(PastedUrls, MaxTextLen)

NextQueue ==
    \/ \E text \in QueueTexts :
           /\ HandleAnalyzeBatch(text)
           /\ Queued
           /\ lastOp' = [op |-> "handleAnalyzeBatch", arg |-> text]
    \/ \E p \in pendingAnalyses, resp \in QueueResponses :
           /\ AnalysisDone(p, resp)
           /\ Queued
           /\ lastOp' = [op |-> "analysis", arg |-> <<>>]
    \/ \E k \in DOMAIN queue, n \in MockCounts :
           /\ ExpandPlaylist(k, n)
           /\ Queued
           /\ lastOp' = [op |-> "expandPlaylist", arg |-> <<>>]
    \/ \E k \in DOMAIN queue :
           /\ RemoveItem(k)
           /\ Queued
           /\ lastOp' = [op |-> "removeItem", arg |-> <<>>]

SpecQueue == InitQueue /\ [][NextQueue]_vars

Count(q, url) == Cardinality({k \in DOMAIN q : q[k].url = url})

Occurrences(text, word) == Cardinality({i \in DOMAIN text : text[i] = word})

\* C4: handleAnalyzeBatch leaves exactly one queue item for every URL of the
\* text, however often the URL occurs in it: it makes one item for a URL that
\* was not in the queue and none for a URL that was, and it changes the
\* number of items of no other URL.
C4_PasteStep ==
    lastOp'.op = "handleAnalyzeBatch" =>
        LET text == lastOp'.arg
            pasted == {text[i] : i \in {j \in DOMAIN text : text[j].base # 0}}
        IN  /\ \A url \in pasted :
                   Count(queue', url) = IF Count(queue, url) > 0 THEN Count(queue, url) ELSE 1
            /\ \A k \in DOMAIN queue : queue[k].url \notin pasted =>
                   Count(queue', queue[k].url) = Count(queue, queue[k].url)
            /\ Len(queue') = Len(queue)
                   + Cardinality({url \in pasted : Count(queue, url) = 0})

C4_OneEntryPerPastedUrl == [][C4_PasteStep]_vars

\* a text with the same URL twice has been pasted while another URL was
\* queued: the queue holds one new item for the pasted URL
C4_Witness ==
    /\ lastOp.op = "handleAnalyzeBatch"
    /\ Len(queue) >= 2
    /\ \E url \in Range(lastOp.arg) :
           /\ Occurrences(lastOp.arg, url) >= 2
           /\ url.base # 0
           /\ Count(queue, url) = 1
           /\ queue[1] = Item(nextId - 1, url, "analyzing", 0, NoResult, downloadType)

\* ------------------------------------------------------- analyzeLink alone
AnalyzedUrls == {Url(1), Url(2), Url(3), Url(4)}

\* the permission plays no part here
InitAnalyze == InitCore /\ notification = "default"

NextAnalyze ==
    \/ \E url \in AnalyzedUrls : CallAnalyzeLink(url)
    \/ \E resp \in Responses : GenerateContentSettles(resp)

SpecAnalyze == InitAnalyze /\ [][NextAnalyze]_vars

\* C7: the promise of analyzeLink is never rejected, and when generateContent
\* throws, answers without text or answers with text that is not JSON, it is
\* resolved with isValid = false, platform 'Desconocida', contentType
\* 'unknown' and isPlaylist = false.
C7_NeverRejects ==
    analysis.pc = "settled" =>
        /\ ~analysis.outcome.rejected
        /\ analysis.response.kind \in {"throw", "empty", "badjson"} =>
               /\ analysis.outcome.value.isValid = FALSE
               /\ analysis.outcome.value.platform = "Desconocida"
               /\ analysis.outcome.value.contentType = "unknown"
               /\ analysis.outcome.value.isPlaylist = FALSE

C7_Witness ==
    /\ analysis.pc = "settled"
    /\ analysis.response.kind = "badjson"
    /\ analysis.outcome.value.platform = "Desconocida"
    /\ ~analysis.outcome.rejected

\* ------------------------------- the Generator with every error it can catch
\* the permission is granted, so that handleGenerate never waits for it and
\* one call is in flight at a time
InitErrors == Init /\ notification = "granted"

NextErrors ==
    \/ \E selected \in BOOLEAN : CheckApiKey(selected)
    \/ HandleSelectKey /\ Dialogs'
    \/ SelectKeyClosed
    \/ \E p \in Prompts : SetPrompt(p)
    \/ HandleGenerate
    \/ \E c \in DOMAIN generations, uri \in Uris : OperationCompletes(c, uri)
    \/ \E c \in DOMAIN generations : StartResponds(c)
    \/ \E c \in DOMAIN generations : WaitElapses(c, MaxPolls)
    \/ \E c \in DOMAIN generations : PollResponds(c)
    \/ \E c \in DOMAIN generations, err \in Errors : GenerationFails(c, err)

SpecErrors == InitErrors /\ [][NextErrors]_vars

\* the rules of the catch block, in their order: what is looked for in the
\* message, the status (NoStatus: none), and the message shown
Rule(marker, status, message) == [marker |-> marker, status |-> status, message |-> message]

Rules ==
    <<Rule("Requested entity was not found", 404, KeyInvalid),
      Rule("INVALID_ARGUMENT", 400, PromptInvalid),
      Rule("PERMISSION_DENIED", 403, Denied),
      Rule("RESOURCE_EXHAUSTED", 429, Quota),
      Rule("UNAVAILABLE", 503, Saturated),
      Rule("SAFETY", NoStatus, Blocked)>>

Matches(rule, err) ==
    /\ err.truthy
    /\ \/ rule.marker \in err.message
       \/ rule.status # NoStatus /\ StatusOf(err) = rule.status

\* the first rule that matches err, 0 when none does
FirstRule(err) ==
    IF \E i \in DOMAIN Rules : Matches(Rules[i], err)
    THEN CHOOSE i \in DOMAIN Rules :
             /\ Matches(Rules[i], err)
             /\ \A j \in 1..(i - 1) : ~Matches(Rules[j], err)
    ELSE 0

Threw == lastOp.op = "generateVideo threw"

\* C8: when the video-generation call throws, the message handleGenerate
\* shows is the one of the first rule, in the order not found, invalid
\* argument, permission denied, quota, unavailable, safety, that matches the
\* error, the generic message when none does; hasKey becomes false when the
\* rule is the not-found one and keeps its value otherwise.
C8_FirstMatchingRule ==
    Threw =>
        LET i == FirstRule(lastOp.arg.err)
        IN  /\ error = IF i = 0 THEN Generic ELSE Rules[i].message
            /\ hasKey = IF i = 1 THEN FALSE ELSE lastOp.arg.hasKey

C8_Witness ==
    /\ Threw
    /\ lastOp.arg.err.message = {"Requested entity was not found", "SAFETY"}
    /\ StatusOf(lastOp.arg.err) = 400
    /\ lastOp.arg.hasKey
    /\ error = KeyInvalid
    /\ ~hasKey

\* --------------------------------- the Generator with its polling, under fairness
\* what generateVideos or getVideosOperation throws here
PollErrors == {Err(TRUE, {}, 500, NoStatus), Err(TRUE, {NotFoundMarker}, NoStatus, 404)}

\* the permission is granted: handleGenerate calls generateVideo without
\* waiting for the prompt of the browser
InitGen ==
    /\ Init
    /\ notification = "granted"
    /\ keyCheck = Environment(TRUE, FALSE, TRUE)

InFlight == Cardinality(DOMAIN generations) <= MaxGenerations

\* the Generator's steps when no permission prompt is answered
NextPolls ==
    \/ \E selected \in BOOLEAN : CheckApiKey(selected)
    \/ HandleSelectKey /\ Dialogs'
    \/ SelectKeyClosed
    \/ \E p \in Prompts : SetPrompt(p)
    \/ HandleGenerate /\ InFlight'
    \/ \E c \in DOMAIN generations, uri \in Uris : OperationCompletes(c, uri)
    \/ \E c \in DOMAIN generations : StartResponds(c)
    \/ \E c \in DOMAIN generations : WaitElapses(c, MaxPolls)
    \/ \E c \in DOMAIN generations : PollResponds(c)
    \/ \E c \in DOMAIN generations, err \in PollErrors : GenerationFails(c, err)

NextGen ==
    \/ NextPolls
    \/ \E c \in DOMAIN generations, answer \in {"granted", "denied", "default"} :
           GenerationPermissionAnswered(c, answer)

\* a request that was sent is answered or fails
Settles(c) ==
    \/ StartResponds(c)
    \/ PollResponds(c)
    \/ \E err \in PollErrors : GenerationFails(c, err)

\* the timeouts fire and the requests settle
SpecGenFair ==
    /\ InitGen
    /\ [][NextPolls]_vars
    /\ \A c \in 1..MaxGenerations :
           WF_vars(WaitElapses(c, MaxPolls)) /\ WF_vars(Settles(c))

Answered == lastOp.op \in {"generateVideos", "getVideosOperation"}

C9_OnePollPerWait ==
    \A c \in DOMAIN generations :
        LET g == generations[c]
        IN  /\ g.pc \in {"permission", "starting"} => g.waits = 0 /\ g.polls = 0
            /\ g.pc = "waiting" => g.waits = g.polls + 1
            /\ g.pc = "polling" => g.waits = g.polls /\ g.polls >= 1

C9_AnswerStep ==
    Answered' =>
        LET c == lastOp'.arg.call
            operation == lastOp'.arg.operation
        IN  IF operation.done
            THEN /\ c \notin DOMAIN generations'
                 /\ videoUri' = IF operation.uri.null \/ operation.uri.text = <<>>
                                THEN Null
                                ELSE Str(operation.uri.text \o <<"&key=", "API_KEY">>)
            ELSE /\ c \in DOMAIN generations'
                 /\ generations'[c].pc = "waiting"
                 /\ generations'[c].polls = generations[c].polls
                 /\ UNCHANGED videoUri

C9_Terminates ==
    \A c \in 1..MaxGenerations :
        (c \in DOMAIN generations /\ generations[c].remote.done)
            ~> (c \notin DOMAIN generations)

\* C9: generateVideo returns only on an answer that has done = true, with the
\* URI followed by the key or null when the answer has no URI, and goes back
\* to waiting on any other answer; it has made one poll for each wait that
\* has elapsed; and once the operation is done on the server the call ends.
C9_PollsUntilDone ==
    /\ [](C9_OnePollPerWait)
    /\ [][C9_AnswerStep]_vars
    /\ C9_Terminates

C9_Witness ==
    /\ lastOp.op = "getVideosOperation"
    /\ lastOp.arg.polls >= 2
    /\ lastOp.arg.operation.done
    /\ videoUri = Str(<<"https://video/1?alt=media", "&key=", "API_KEY">>)
    /\ ~isGenerating

\* ------------------------------------------------------- the App theme menu
InitTheme == InitCore /\ notification = "default"

Coordinates == 0..MaxMouse
\* where the bounding rectangle of the content element starts
Origins == {0, 1}

NextApp ==
    \/ ToggleMenu
    \/ \E i \in DOMAIN themes : ChooseTheme(i)
    \/ ClickOutside
    \/ \E clientX, clientY \in Coordinates, left, top \in Origins :
           HandleMouseMove(clientX, clientY, left, top)

SpecApp == InitTheme /\ [][NextApp]_vars

ThemeIds == <<"neon", "sunset", "forest", "royal", "ocean", "cosmic">>

C10_OneOfSix ==
    /\ Len(themes) = Len(ThemeIds)
    /\ \A i \in DOMAIN themes : themes[i].id = ThemeIds[i]
    /\ Cardinality({i \in DOMAIN themes : themes[i] = currentTheme}) = 1
    /\ Cardinality({i \in DOMAIN themes : themes[i].id = currentTheme.id}) = 1

C10_ChooseStep ==
    lastOp'.op = "chooseTheme" =>
        /\ showMenu
        /\ currentTheme' = lastOp'.arg
        /\ ~showMenu'

\* C10: the current theme is at all times one, and only one, of the six
\* themes neon, sunset, forest, royal, ocean and cosmic; it is neon at the
\* start; a click on a theme of the menu makes that theme the current one
\* and closes the menu.
C10_ExactlyOneTheme ==
    /\ currentTheme.id = "neon"
    /\ [](C10_OneOfSix)
    /\ [][C10_ChooseStep]_vars

C10_Witness ==
    /\ lastOp.op = "chooseTheme"
    /\ lastOp.arg.id = "cosmic"
    /\ currentTheme.id = "cosmic"
    /\ ~showMenu
    /\ mouse.x # Unset

\* ------------------- the Downloader with handleDownloadAll, permission granted
\* startDownload never waits for the permission here, the type stays 'video'
\* and no item is removed
InitAll == InitCore /\ notification = "granted"

All == Bounded(MaxAllId, MaxAllCalls, 1)' /\ UNCHANGED <<lastOp, ticks, others>>

\* two URLs, pasted one after the other: 'Descargar Todo' is rendered for a
\* queue of more than one item
AllTexts == {<<Url(1)>>, <<Url(2)>>}

NextAll ==
    \/ \E text \in AllTexts : HandleAnalyzeBatch(text) /\ All
    \/ \E p \in pendingAnalyses, resp \in QueueResponses : AnalysisDone(p, resp) /\ All
    \/ \E k \in DOMAIN queue, n \in MockCounts : ExpandPlaylist(k, n) /\ All
    \/ \E k \in DOMAIN queue : StartDownload(k) /\ All
    \/ HandleDownloadAll /\ All
    \/ \E k \in DOMAIN pendingTimeouts : TimeoutFires(k) /\ All
    \/ \E t \in timers, inc \in CoarseIncrements : Tick(t, inc) /\ All

SpecAll == InitAll /\ [][NextAll]_vars

Statuses5 == {"analyzing", "ready", "downloading", "completed", "error"}

StatusEdges ==
    {<<"analyzing", "ready">>, <<"analyzing", "error">>, <<"ready", "downloading">>,
     <<"downloading", "completed">>}

C11_StatusInFive ==
    \A k \in DOMAIN queue : queue[k].status \in Statuses5

C11_StatusStep ==
    \A k \in DOMAIN queue, j \in DOMAIN queue' :
        queue[k].id = queue'[j].id =>
            \/ queue'[j].status = queue[k].status
            \/ <<queue[k].status, queue'[j].status>> \in StatusEdges

\* C11: the status of every queue item is one of analyzing, ready,
\* downloading, completed and error, and from one state to the next the
\* status of an item stays or goes from analyzing to ready or error, from
\* ready to downloading, or from downloading to completed.
C11_FiveStateRecord ==
    [](C11_StatusInFive) /\ [][C11_StatusStep]_vars

\* ----------- the starts of a download, without playlists and without removals
InitStarts == InitCore /\ notification \in {"default", "granted"}

Starts == Bounded(MaxStartId, MaxStartCalls, 1)' /\ UNCHANGED <<lastOp, ticks, others>>

\* the answers that make a single item, or none
StartResponses ==
    {Response("throw", NoResult), Response("json", Data("YouTube", TRUE, "video", FALSE))}

NextStarts ==
    \/ \E text \in AllTexts : HandleAnalyzeBatch(text) /\ Starts
    \/ \E p \in pendingAnalyses, resp \in StartResponses : AnalysisDone(p, resp) /\ Starts
    \/ \E k \in DOMAIN queue : StartDownload(k) /\ Starts
    \/ \E p \in pendingStarts, a \in {"granted", "denied", "default"} :
           PermissionAnswered(p, a) /\ Starts
    \/ HandleDownloadAll /\ Starts
    \/ \E k \in DOMAIN pendingTimeouts : TimeoutFires(k) /\ Starts
    \/ \E t \in timers, inc \in CoarseIncrements : Tick(t, inc) /\ Starts

SpecStarts == InitStarts /\ [][NextStarts]_vars

\* C17: at no time are two progress timers active for one item id, however
\* the startDownload calls on the item (clicks, handleDownloadAll timeouts)
\* interleave with the permission prompt and the ticks.
C17_OneTimerPerId ==
    \A t, u \in timers : t.id = u.id => t = u

\* ------------------------------------------- the expansions of a playlist
InitExpand == InitCore /\ notification = "default"

Expanding == Bounded(MaxExpandId, 0, 1)' /\ UNCHANGED <<ticks, others>>

\* what is pasted: a playlist URL, or that URL followed by '&index=1'
ExpandTexts == {<<Url(1)>>, <<SubUrl(Url(1), 1)>>}

ExpandResponses ==
    {Response("json", Data("YouTube", TRUE, "video", FALSE)),
     Response("json", Data("YouTube", TRUE, "video", TRUE))}

\* the ids handed out that are not, or no longer, in the queue
Gone == (1..(nextId - 1)) \ Ids(queue)

\* expandPlaylist(itemId, platform) for an id that queue.find does not find
ExpandPlaylistGone(itemId) ==
    /\ itemId \in Gone
    /\ UNCHANGED <<dlVars, removed>>

NextExpand ==
    \/ \E text \in ExpandTexts :
           /\ HandleAnalyzeBatch(text)
           /\ Expanding
           /\ lastOp' = Op("handleAnalyzeBatch", text)
    \/ \E p \in pendingAnalyses, resp \in ExpandResponses :
           /\ AnalysisDone(p, resp)
           /\ Expanding
           /\ lastOp' = Op("analysis", <<>>)
    \/ \E k \in DOMAIN queue, n \in MockCounts :
           /\ ExpandPlaylist(k, n)
           /\ Expanding
           /\ lastOp' = Op("expandPlaylist", [index |-> k, item |-> queue[k]])
    \/ \E itemId \in Gone :
           /\ ExpandPlaylistGone(itemId)
           /\ Expanding
           /\ lastOp' = Op("expandPlaylist gone", itemId)

SpecExpand == InitExpand /\ [][NextExpand]_vars

\* the number of sub-items a step from queue to queue' put in place of one item
Grown == Len(queue') - Len(queue) + 1

\* C13: expandPlaylist(id) puts, at the position of the item id, between 3 and 7
\* sub-items that are 'ready', at progress 0, no playlists, and whose urls are
\* the parent's url followed by '&index=i' for i = 1..n; the items before and
\* after it are unchanged and keep their order; for an id that is no longer in
\* the queue the queue is unchanged.
C13_ExpandStep ==
    /\ lastOp'.op = "expandPlaylist" =>
           LET k == lastOp'.arg.index
               parent == lastOp'.arg.item
           IN  /\ queue[k] = parent
               /\ Grown \in 3..7
               /\ parent.id \notin Ids(queue')
               /\ \A j \in 1..(k - 1) : queue'[j] = queue[j]
               /\ \A j \in (k + 1)..Len(queue) : queue'[j + Grown - 1] = queue[j]
               /\ \A i \in 1..Grown :
                      /\ queue'[k + i - 1].status = "ready"
                      /\ queue'[k + i - 1].progress = 0
                      /\ queue'[k + i - 1].result.isPlaylist = FALSE
                      /\ queue'[k + i - 1].url = SubUrl(parent.url, i)
                      /\ queue'[k + i - 1].id \notin Ids(queue)
    /\ lastOp'.op = "expandPlaylist gone" =>
           /\ lastOp'.arg \notin Ids(queue)
           /\ queue' = queue

C13_ExpandReplaces == [][C13_ExpandStep]_vars

\* the second of two items was expanded into six, the first one kept its place
C13_Witness ==
    /\ lastOp.op = "expandPlaylist"
    /\ lastOp.arg.index = 2
    /\ Len(queue) = 7
    /\ queue[1].url = SubUrl(Url(1), 1)
    /\ queue[7].url = SubUrl(lastOp.arg.item.url, 6)
    /\ lastOp.arg.item.id \in Gone

\* C14: the queue is deduplicated by URL: no two queue items have the same url.
C14_NoDuplicateUrls ==
    \A j, k \in DOMAIN queue : queue[j].url = queue[k].url => j = k

\* the ids of the items expandPlaylist replaced by their sub-items
Replaced == Gone \ removed

\* C15: when a queue item is replaced by expanded playlist sub-items, no
\* progress timer remains active for the replaced item, also when
\* handleDownloadAll started it before or while it is expanded.
C15_NoTimerForReplaced == \A t \in timers : t.id \notin Replaced

\* two startDownload calls ran on the one item there ever was, and the one
\* timer that is active is the second call's
C17_Witness ==
    /\ nextId = 2
    /\ nextCall = 3
    /\ Len(queue) = 1
    /\ queue[1].status = "downloading"
    /\ timers = {Timer(2, queue[1].id, 0)}
    /\ intervalsRef[queue[1].id] = 2

C16_InRange ==
    \A k \in DOMAIN queue :
        /\ queue[k].progress \in 0..Complete
        /\ queue[k].status \in {"analyzing", "ready", "error"} => queue[k].progress = 0
        /\ queue[k].status = "completed" => queue[k].progress = Complete

C16_ProgressStep ==
    \A j \in DOMAIN queue, k \in DOMAIN queue' :
        queue[j].id = queue'[k].id => queue'[k].progress >= queue[j].progress

\* C16: the progress of every queue item is within 0..100, never decreases
\* while the item stays in the queue, is 0 for the items that are analyzing,
\* ready or in error, and is 100 for every completed item.
C16_ProgressMonotone == [](C16_InRange) /\ [][C16_ProgressStep]_vars

\* ------------------------------------------------- the ticks of a download
InitTicks == InitCore /\ notification = "granted"

\* the least and the greatest of Increments: Math.random() = 0 and
\* Math.random() = (Scale - 1) / Scale
TickIncrements == {0 * 5 + 1 * Scale, (Scale - 1) * 5 + 1 * Scale}

\* of the two URLs pasted, the first is analysed as a valid single item and
\* the analysis of the second fails, so that the queue has the two items
\* 'Descargar Todo' is rendered for and one download
TickResponse(p) ==
    IF p.url = Url(1)
    THEN Response("json", Data("YouTube", TRUE, "video", FALSE))
    ELSE Response("throw", NoResult)

\* the runs counted after a step, for the timers that are then active: those of
\* the step's new timer start at 0, those of the timer `ran` go up by one
Counted(ran) ==
    ticks' = [h \in {t.h : t \in timers'} |->
                 IF h \in DOMAIN ticks
                 THEN ticks[h] + (IF h = ran THEN 1 ELSE 0)
                 ELSE 0]

\* the timer of the startDownload call h runs its callback once
TickOf(h) ==
    \E t \in timers, inc \in TickIncrements :
        /\ t.h = h
        /\ Tick(t, inc)
        /\ Bounded(MaxTickId, MaxTickCalls, 1)'
        /\ Counted(h)
        /\ lastOp' = Op("tick", [id |-> t.id, runs |-> ticks[h] + 1])
        /\ UNCHANGED others

Ticking(op) ==
    /\ Bounded(MaxTickId, MaxTickCalls, 1)'
    /\ Counted(0)
    /\ lastOp' = Op(op, <<>>)
    /\ UNCHANGED others

NextTicks ==
    \/ \E text \in AllTexts : HandleAnalyzeBatch(text) /\ Ticking("handleAnalyzeBatch")
    \/ \E p \in pendingAnalyses : AnalysisDone(p, TickResponse(p)) /\ Ticking("analysis")
    \/ \E k \in DOMAIN queue : StartDownload(k) /\ Ticking("startDownload")
    \/ HandleDownloadAll /\ Ticking("handleDownloadAll")
    \/ \E k \in DOMAIN pendingTimeouts : TimeoutFires(k) /\ Ticking("timeout")
    \/ \E h \in DOMAIN ticks : TickOf(h)

SpecTicks == InitTicks /\ [][NextTicks]_vars

\* every timer that is active keeps running its callback
SpecTicksFair == SpecTicks /\ \A h \in 1..(MaxTickCalls + 1) : WF_vars(TickOf(h))

\* what every tick has added so far: at least 1 and less than 6 each time,
\* and no timer that ran 100 times is still active
C18_Accumulated ==
    \A t \in timers :
        /\ t.h \in DOMAIN ticks
        /\ ticks[t.h] <= 99
        /\ t.progress >= 1 * Scale * ticks[t.h]
        /\ ticks[t.h] > 0 => t.progress < 6 * Scale * ticks[t.h]
        /\ t.progress < Complete * Scale

\* the run of a callback that completes its item is the 17th at the earliest
\* and the 100th at the latest
C18_CompletionStep ==
    \A k \in DOMAIN queue :
        (/\ lastOp'.op = "tick"
         /\ lastOp'.arg.id = queue[k].id
         /\ queue[k].status = "downloading"
         /\ queue'[k].status = "completed")
            => lastOp'.arg.runs \in 17..100

C18_Completes ==
    \A id \in 1..MaxTickId :
        (\E k \in DOMAIN queue : queue[k].id = id /\ queue[k].status = "downloading")
            ~> (\E k \in DOMAIN queue : queue[k].id = id /\ queue[k].status = "completed")

\* C18: every item that enters 'downloading' and stays in the queue reaches
\* 'completed' when its timer keeps firing; each tick adds at least 1 and less
\* than 6 to the progress its timer has accumulated, so the tick that completes
\* the item is not before the 17th and not after the 100th of that timer.
C18_CompletesWithinTicks ==
    /\ [](C18_Accumulated)
    /\ [][C18_CompletionStep]_vars
    /\ C18_Completes

\* the second timer of an item completed it at its hundredth run
C18_Witness ==
    /\ lastOp.op = "tick"
    /\ lastOp.arg.runs = 100
    /\ nextCall = 3
    /\ \E k \in DOMAIN queue :
           /\ queue[k].id = lastOp.arg.id
           /\ queue[k].status = "completed"
           /\ queue[k].progress = Complete
    /\ timers = {}

\* the analyses that returned in a step
JustAnalyzed == pendingAnalyses \ pendingAnalyses'

\* C19: re-submitting a URL that is already in the queue adds no item for it
\* and leaves every item of the queue as it is, in its place; the queue is
\* unchanged when every URL of the text is already in it, and unchanged again
\* when the analysis launched for a discarded duplicate returns.
C19_ResubmitStep ==
    /\ lastOp'.op = "handleAnalyzeBatch" =>
           LET text == lastOp'.arg
               pasted == {text[i] : i \in {j \in DOMAIN text : text[j].base # 0}}
               added == Len(queue') - Len(queue)
           IN  /\ added >= 0
               /\ SubSeq(queue', added + 1, Len(queue')) = queue
               /\ \A k \in 1..added : Count(queue, queue'[k].url) = 0
               /\ (\A url \in pasted : Count(queue, url) > 0) => queue' = queue
    /\ \A p \in JustAnalyzed :
           (p.id \notin Ids(queue) /\ Count(queue, p.url) > 0) => queue' = queue

C19_ResubmitLeavesQueue == [][C19_ResubmitStep]_vars

\* the URL of the one item of the queue was pasted a second time, and the
\* analysis of the discarded duplicate has returned: the item is as it was
C19_Witness ==
    /\ lastOp.op = "analysis"
    /\ nextId = 3
    /\ removed = {}
    /\ pendingAnalyses = {}
    /\ Len(queue) = 1
    /\ queue[1].id = 1
    /\ queue[1].status = "ready"
    /\ queue[1].result.isPlaylist

\* ------------------------------------------- what the analysis lets start
InitReady == InitCore /\ notification = "granted"

Readying == Bounded(MaxReadyId, MaxReadyCalls, 1)' /\ UNCHANGED <<lastOp, ticks, others>>

ReadyTexts == {<<Url(1)>>, <<Url(2)>>}

NextReady ==
    \/ \E text \in ReadyTexts : HandleAnalyzeBatch(text) /\ Readying
    \/ \E p \in pendingAnalyses, resp \in QueueResponses : AnalysisDone(p, resp) /\ Readying
    \/ \E k \in DOMAIN queue : StartDownload(k) /\ Readying
    \/ HandleDownloadAll /\ Readying
    \/ \E k \in DOMAIN pendingTimeouts : TimeoutFires(k) /\ Readying
    \/ \E t \in timers, inc \in CoarseIncrements : Tick(t, inc) /\ Readying

SpecReady == InitReady /\ [][NextReady]_vars

\* the analysis of the item gave a result with isValid = true
Valid(item) == item.result # NoResult /\ item.result.isValid

C20_ValidOnly ==
    \A k \in DOMAIN queue :
        queue[k].status \in {"ready", "downloading", "completed"} => Valid(queue[k])

C20_LeaveStep ==
    \A j \in DOMAIN queue, k \in DOMAIN queue' :
        (/\ queue[j].id = queue'[k].id
         /\ queue[j].status = "analyzing"
         /\ queue'[k].status # "analyzing")
            => queue'[k].status = (IF Valid(queue'[k]) THEN "ready" ELSE "error")

\* C20: an item leaves 'analyzing' for 'ready' exactly when its analysis result
\* has isValid = true and for 'error' otherwise, and an item whose analysis
\* failed or gave isValid = false is never 'ready', 'downloading' or 'completed'.
C20_ReadyIffValid == [](C20_ValidOnly) /\ [][C20_LeaveStep]_vars

\* 'download all' ran over a queue with a valid and an invalid item: the valid
\* one is completed, the invalid one is still in error
C20_Witness ==
    /\ pendingTimeouts = <<>>
    /\ nextCall > 1
    /\ \E j, k \in DOMAIN queue :
           /\ queue[j].status = "error"
           /\ queue[j].result # NoResult
           /\ ~queue[j].result.isValid
           /\ queue[k].status = "completed"

\* ------------------------------------------------------- the type toggle
InitTypes == InitCore /\ notification = "default"

Typing == Bounded(MaxTypeId, 0, MaxTypeId)' /\ UNCHANGED <<lastOp, ticks, others>>

TypeTexts == {<<Url(1)>>, <<Url(2)>>}

NextTypes ==
    \/ \E text \in TypeTexts : HandleAnalyzeBatch(text) /\ Typing
    \/ \E p \in pendingAnalyses, resp \in QueueResponses : AnalysisDone(p, resp) /\ Typing
    \/ \E type \in {"video", "audio"} : SetDownloadType(type) /\ Typing
    \/ \E k \in DOMAIN queue : RemoveItem(k) /\ Typing

SpecTypes == InitTypes /\ [][NextTypes]_vars

\* C21: every queue item in status 'ready' has the media type that is
\* currently selected, whatever the order of type toggles, submissions and
\* analysis results.
C21_ReadyHasSelectedType ==
    \A k \in DOMAIN queue : queue[k].status = "ready" => queue[k].type = downloadType

\* the step in which the k-th pending timeout of handleDownloadAll fires
Fired(k) ==
    pendingTimeouts' = SubSeq(pendingTimeouts, 1, k - 1)
                           \o SubSeq(pendingTimeouts, k + 1, Len(pendingTimeouts))

C22_TimeoutStep ==
    \A k \in DOMAIN pendingTimeouts :
        Fired(k) =>
            \A j \in DOMAIN queue :
                (/\ queue[j].id = pendingTimeouts[k].id
                 /\ queue[j].status \in {"downloading", "completed"})
                    => /\ j \in DOMAIN queue'
                       /\ queue'[j] = queue[j]

\* C22: a staggered start of handleDownloadAll that fires for an item that is
\* already downloading or completed does not restart it and does not reset
\* its progress to 0.
C22_NoRestart == [][C22_TimeoutStep]_vars

\* --------------------------------------- the clicks on the generate button
InitClicks ==
    /\ Init
    /\ notification = "default"
    /\ keyCheck = Environment(TRUE, FALSE, TRUE)

Clicked == Cardinality(DOMAIN generations) <= MaxClicks

NextClicks ==
    \/ \E selected \in BOOLEAN : CheckApiKey(selected)
    \/ HandleSelectKey /\ Dialogs'
    \/ SelectKeyClosed
    \/ \E p \in Prompts : SetPrompt(p)
    \/ HandleGenerate /\ Clicked'
    \/ \E c \in DOMAIN generations, answer \in {"granted", "denied", "default"} :
           GenerationPermissionAnswered(c, answer)
    \/ \E c \in DOMAIN generations, uri \in Uris : OperationCompletes(c, uri)
    \/ \E c \in DOMAIN generations : StartResponds(c)
    \/ \E c \in DOMAIN generations : WaitElapses(c, MaxPolls)
    \/ \E c \in DOMAIN generations : PollResponds(c)
    \/ \E c \in DOMAIN generations, err \in PollErrors : GenerationFails(c, err)

SpecClicks == InitClicks /\ [][NextClicks]_vars

\* the handleGenerate calls whose generateVideo call has not returned
Generating == {c \in DOMAIN generations : generations[c].pc # "permission"}

\* C23: isGenerating is true whenever a generateVideo call is in flight, and
\* at most one generateVideo call is in flight at a time, for every
\* interleaving of handleGenerate invocations.
C23_OneGeneration ==
    /\ Generating # {} => isGenerating
    /\ Cardinality(Generating) <= 1

\* handleGenerate has just called sendNotification: generateVideo returned
Notified == Answered /\ ~Continue(lastOp.arg.operation)

\* C24: the success notification is sent only when generateVideo produced a
\* video URI: whenever handleGenerate sends it, videoUri is not null and error
\* is null.
C24_NotifiedHasVideo == Notified => (~videoUri.null /\ error = NoError)

\* ------------------------------------------- what a started download records
Started == Bounded(MaxAllId, MaxAllCalls, 1)' /\ UNCHANGED <<ticks, others>>

\* what is pasted: a plain URL, and a URL of a playlist entry, which has
\* '&index=1' in it
StartedTexts == {<<Url(1)>>, <<SubUrl(Url(2), 1)>>}

NextStarted ==
    \/ \E text \in StartedTexts :
           HandleAnalyzeBatch(text) /\ Started /\ lastOp' = Op("handleAnalyzeBatch", text)
    \/ \E p \in pendingAnalyses, resp \in QueueResponses :
           AnalysisDone(p, resp) /\ Started /\ lastOp' = Op("analysis", <<>>)
    \/ \E k \in DOMAIN queue, n \in MockCounts :
           ExpandPlaylist(k, n) /\ Started /\ lastOp' = Op("expandPlaylist", <<>>)
    \/ \E k \in DOMAIN queue :
           StartDownload(k) /\ Started /\ lastOp' = Op("startDownload", queue[k])
    \/ HandleDownloadAll /\ Started /\ lastOp' = Op("handleDownloadAll", <<>>)
    \/ \E k \in DOMAIN pendingTimeouts :
           TimeoutFires(k) /\ Started /\ lastOp' = Op("startDownload", pendingTimeouts[k])
    \/ \E k \in DOMAIN queue :
           RemoveItem(k) /\ Started /\ lastOp' = Op("removeItem", <<>>)
    \/ ClearHistory /\ Started /\ lastOp' = Op("clearHistory", <<>>)

SpecStarted == InitAll /\ [][NextStarted]_vars

HistoryUrlsOf(h) == {h[i].url : i \in DOMAIN h}

\* the item was pasted, not made by expandPlaylist
Pasted(item) == \E text \in StartedTexts : item.url = text[1]

C25_StartStep ==
    /\ HistoryUrlsOf(history') \ HistoryUrlsOf(history) # {} =>
           /\ lastOp'.op = "startDownload"
           /\ lastOp'.arg.status = "ready"
           /\ Valid(lastOp'.arg)
           /\ HistoryUrlsOf(history') \ HistoryUrlsOf(history) = {lastOp'.arg.url}
    /\ (lastOp'.op = "startDownload" /\ ~Pasted(lastOp'.arg)) =>
           /\ HasIndex(lastOp'.arg.url)
           /\ history' = history
    /\ (lastOp'.op = "startDownload" /\ Pasted(lastOp'.arg) /\ Valid(lastOp'.arg)) =>
           /\ history' # <<>>
           /\ history'[1].url = lastOp'.arg.url

\* C25: a URL enters history only when startDownload proceeds for a 'ready'
\* item whose analysis result is valid; the sub-items made by expandPlaylist
\* are never added, and every other valid URL whose download is started is in
\* history immediately afterwards.
C25_StartedIsRecorded == [][C25_StartStep]_vars

\* ---------------------------------------------- the notification wrappers
\* the Generator in a browser of any kind: with or without Notification, the
\* permission not yet asked for, granted or denied
InitNotify == Init /\ keyCheck = Environment(TRUE, FALSE, TRUE)

SpecNotify == InitNotify /\ [][NextGen]_vars

\* C26: requestNotificationPermission returns true exactly when the permission
\* is granted afterwards, asks the browser only when the permission is neither
\* granted nor denied, and returns false where notifications are unsupported;
\* sendNotification shows a notification only when the permission is granted
\* and never throws to its caller, in every permission state and in browsers
\* without notification support.
C26_WrappersNeverFail ==
    /\ \A answer \in {"granted", "denied", "default"} :
           LET r == RequestNotificationPermission(notification, answer)
           IN  /\ r.returns <=> r.permission = "granted"
               /\ r.asked => notification \notin {"granted", "denied"}
               /\ notification = "unsupported" => ~r.returns /\ ~r.asked
    /\ Notified =>
           /\ SendNotification(notification).shown => notification = "granted"
           /\ ~SendNotification(notification).threw

====
